---- MODULE Spec2Model ----
(***************************************************************************)
(* Ponip Pickler: the change-detection and persistence pipeline of         *)
(* src/main.py.  One pass (main) walks the fixed URL list; for each URL it *)
(* fetches and parses a page into a record, looks the prior state up in    *)
(* the database, notifies over Telegram and writes the sales_info table.   *)
(*                                                                         *)
(* The database outlives the process: the `properties` table is read but   *)
(* never written by this program, so its content (and the sales_info rows  *)
(* that were there before the first pass) is an input drawn in Init.       *)
(***************************************************************************)
EXTENDS Integers, Sequences, FiniteSets, TLC

\* ------------------------------------------------------------- bounds
NumUrls == 2          \* length of the URL list walked by one pass
MaxPasses == 2        \* invocations of main() counted by the history variables

Urls == 1..NumUrls
Ids == {"X1", "X2"}                  \* auction identities a page can carry
StatusValues == {"OPEN", "CLOSED"}   \* values of the second page field

\* ------------------------------------------------------------- records
IdKey == "ID nadmetanja"
StatusKey == "status_nadmetanja"
Keys == {IdKey, StatusKey}
None == "None"        \* Python None / SQL NULL

ValuesOf(k) == IF k = IdKey THEN Ids ELSE StatusValues
Pairs == UNION {{<<k, v>> : v \in ValuesOf(k)} : k \in Keys}

\* A Python dict: its items in insertion order, keys unique.
KeysOf(d) == {d[i][1] : i \in 1..Len(d)}
IsDict(d) == \A i, j \in 1..Len(d) : d[i][1] = d[j][1] => i = j
Dicts == {d \in UNION {[1..n -> Pairs] : n \in 0..Cardinality(Keys)} : IsDict(d)}

Has(d, k) == k \in KeysOf(d)
Get(d, k, default) ==
    IF Has(d, k) THEN d[CHOOSE i \in 1..Len(d) : d[i][1] = k][2] ELSE default

\* Code-point order of the keys ("I" < "s").
KeyRank(k) == IF k = IdKey THEN 1 ELSE 2

\* The items of d ordered by key, as json.dumps(..., sort_keys=True) emits them.
SortKeys(d) ==
    [i \in 1..Len(d) |->
        d[CHOOSE j \in 1..Len(d) :
            Cardinality({k \in 1..Len(d) : KeyRank(d[k][1]) < KeyRank(d[j][1])}) = i - 1]]

\* json.dumps: the text lists the items in dict order, or in key order.
json_dumps(d, sort_keys) == [json |-> IF sort_keys THEN SortKeys(d) ELSE d]
\* json.loads: the dict with the items in the order of the text.
json_loads(s) == s.json
\* hashlib.sha256(...).hexdigest(): collision free on the bounded inputs.
sha256(s) == [sha256 |-> s]

\* Variant: the keys are not sorted before serialization.
hash_data_unsorted(json_input) == sha256(json_dumps(json_input, FALSE))

hash_data(json_input) == sha256(json_dumps(json_input, TRUE))

\* The mapping a dict stands for: its items, whatever their insertion order.
Items(d) == {d[i] : i \in DOMAIN d}

\* ------------------------------------------------------------- database
\* Columns of the two mapped classes of data.py.
NekretninaColumns ==
    {"id", "nadlezno_tijelo", "poslovni_broj", "opis", "vrsta_predmeta",
     "opseg_imovine", "utvrdjena_vrijednost", "napomena_uz_detalje",
     "broj_drazbe", "datum_odluke", "datum_pocetka",
     "datum_pocetka_nadmetanja", "datum_zavrsetka_nadmetanja",
     "ostali_uvjeti_prodaje", "min_cijena", "pocetna_cijena",
     "iznos_drazbenog_koraka", "jamcevina", "ostali_uvjeti_za_jamcevinu",
     "razgledavanje", "napomena_uz_uvjete_prodaje"}
SalesInfoColumns ==
    {"id", "iznos_najvise_ponude", "status_nadmetanja", "broj_uplatitelja",
     "data_hash", "json_data"}

\* A row of sales_info; a column the constructor is not given is NULL.
SalesInfo(id, iznos_najvise_ponude, broj_uplatitelja, data_hash, json_data) ==
    [id |-> id,
     iznos_najvise_ponude |-> iznos_najvise_ponude,
     status_nadmetanja |-> None,
     broj_uplatitelja |-> broj_uplatitelja,
     data_hash |-> data_hash,
     json_data |-> json_data]

\* A row of properties as the ORM loads it: only its key matters here.
Nekretnina(id) ==
    [cls |-> "Nekretnina", columns |-> NekretninaColumns, id |-> id, set |-> <<>>]

\* getattr(obj, attr) raises AttributeError for a name the class does not map.
update_if_changed(obj, attr, value) ==
    IF attr \notin obj.columns
    THEN [raised |-> TRUE, obj |-> obj]
    ELSE [raised |-> FALSE, obj |-> [obj EXCEPT !.set = Append(@, <<attr, value>>)]]

\* session.commit(): the pending INSERTs are flushed and made durable.  A
\* primary-key clash or a database failure raises; the handler rolls the
\* transaction back and re-raises.
\* Variant: a failed commit is re-raised without the rollback, the flushed
\* row staying visible.
commit_session_partial(sales, pending, commitOk) ==
    LET clash == \E n \in pending : \E s \in sales : s.id = n.id
        cause == IF clash THEN "IntegrityError"
                 ELSE IF ~commitOk THEN "OperationalError" ELSE "none"
    IN IF cause = "IntegrityError"
       THEN [raised |-> TRUE, cause |-> cause, sales |-> sales]
       ELSE [raised |-> cause # "none", cause |-> cause, sales |-> sales \cup pending]

\* Variant: a primary-key clash is resolved by removing the stored row
\* before the error is re-raised.
commit_session_drop(sales, pending, commitOk) ==
    LET clash == \E n \in pending : \E s \in sales : s.id = n.id
        cause == IF clash THEN "IntegrityError"
                 ELSE IF ~commitOk THEN "OperationalError" ELSE "none"
    IN IF cause = "IntegrityError"
       THEN [raised |-> TRUE, cause |-> cause,
             sales |-> {s \in sales : \A n \in pending : n.id # s.id}]
       ELSE IF cause # "none"
       THEN [raised |-> TRUE, cause |-> cause, sales |-> sales]
       ELSE [raised |-> FALSE, cause |-> cause, sales |-> sales \cup pending]

\* commit_session(session)
commit_session(sales, pending, commitOk) ==
    LET clash == \E n \in pending : \E s \in sales : s.id = n.id
        cause == IF clash THEN "IntegrityError"
                 ELSE IF ~commitOk THEN "OperationalError" ELSE "none"
    IN IF cause # "none"
       THEN [raised |-> TRUE, cause |-> cause, sales |-> sales]
       ELSE [raised |-> FALSE, cause |-> cause, sales |-> sales \cup pending]

\* The projected columns as the update branch of write_sales_info assigns
\* them from data.
updated_fields(data) ==
    [iznos_najvise_ponude |-> Get(data, "iznos_najvise_ponude", None),
     status_nadmetanja |-> Get(data, StatusKey, "UNKNOWN"),
     broj_uplatitelja |-> Get(data, "broj_uplatitelja", None)]

\* Variant: the fingerprint is taken over the serialized text as stored,
\* without sort_keys.
write_sales_info_raw_hash(properties_, sales, data, commitOk) ==
    LET id == Get(data, IdKey, None)
    IN IF id \in properties_
       THEN [raised |-> TRUE, cause |-> "AttributeError", sales |-> sales]
       ELSE commit_session(sales,
                           {SalesInfo(id, Get(data, "iznos_najvise_ponude", None),
                                      Get(data, "broj_uplatitelja", None),
                                      sha256(json_dumps(data, FALSE)),
                                      json_dumps(data, FALSE))},
                           commitOk)

\* Variant: the existing record is looked up in sales_info and updated.
write_sales_info_upsert(properties_, sales, data, commitOk) ==
    LET id == Get(data, IdKey, None)
        old == {r \in sales : r.id = id}
        upd == {[r EXCEPT !.iznos_najvise_ponude = Get(data, "iznos_najvise_ponude", None),
                          !.status_nadmetanja = Get(data, "status_nadmetanja", "UNKNOWN"),
                          !.broj_uplatitelja = Get(data, "broj_uplatitelja", None),
                          !.data_hash = hash_data(data),
                          !.json_data = json_dumps(data, FALSE)] : r \in old}
    IN IF old # {}
       THEN IF commitOk
            THEN [raised |-> FALSE, cause |-> "none", sales |-> (sales \ old) \cup upd]
            ELSE [raised |-> TRUE, cause |-> "OperationalError", sales |-> sales]
       ELSE commit_session(sales,
                           {SalesInfo(id, Get(data, "iznos_najvise_ponude", None),
                                      Get(data, "broj_uplatitelja", None),
                                      hash_data(data), json_dumps(data, FALSE))},
                           commitOk)

\* write_sales_info(session, data).  The existence check queries the
\* properties table (Nekretnina), and the update branch sets sales columns
\* on that object; the create branch adds a SalesInfo row and commits.
write_sales_info(properties_, sales, data, commitOk) ==
    LET data_hash == hash_data(data)
        json_data == json_dumps(data, FALSE)
        id == Get(data, IdKey, None)
        existing_record == id \in properties_
    IN IF existing_record
       THEN LET u1 == update_if_changed(Nekretnina(id), "iznos_najvise_ponude",
                                        Get(data, "iznos_najvise_ponude", None))
                u2 == update_if_changed(u1.obj, "status_nadmetanja",
                                        Get(data, "status_nadmetanja", "UNKNOWN"))
                u3 == update_if_changed(u2.obj, "broj_uplatitelja",
                                        Get(data, "broj_uplatitelja", None))
                u4 == update_if_changed(u3.obj, "data_hash", data_hash)
                u5 == update_if_changed(u4.obj, "json_data", json_data)
            IN IF u1.raised \/ u2.raised \/ u3.raised \/ u4.raised \/ u5.raised
               THEN [raised |-> TRUE, cause |-> "AttributeError", sales |-> sales]
               ELSE commit_session(sales, {}, commitOk)
       ELSE LET new_record == SalesInfo(id,
                                        Get(data, "iznos_najvise_ponude", None),
                                        Get(data, "broj_uplatitelja", None),
                                        data_hash, json_data)
            IN commit_session(sales, {new_record}, commitOk)

\* read_sales_info(session, id_nadmetanja): the first row of properties
\* outer-joined with sales_info.  The query has no filter on id_nadmetanja
\* and no ORDER BY, so `first` is whichever properties row the database
\* yields first.  With no row, record is None and record.id raises; with a
\* row that has no sales_info partner, json.loads(None) raises.
NoValue == [id |-> None, data_hash |-> None, json_data |-> <<>>]
read_sales_info(properties_, sales, id_nadmetanja, first) ==
    IF properties_ = {}
    THEN [raised |-> TRUE, found |-> FALSE, value |-> NoValue]
    ELSE LET joined == {s \in sales : s.id = first}
         IN IF joined = {}
            THEN [raised |-> TRUE, found |-> FALSE, value |-> NoValue]
            ELSE LET s == CHOOSE r \in joined : TRUE
                 IN [raised |-> FALSE, found |-> TRUE,
                     value |-> [id |-> first,
                                data_hash |-> s.data_hash,
                                json_data |-> json_loads(s.json_data)]]

\* ------------------------------------------------------------- notification
\* Variant: the exception of requests.post is not caught.
send_to_telegram_uncaught(kind, id, url, config, tg) ==
    [op |-> "send_to_telegram", kind |-> kind, id |-> id, url |-> url,
     res |-> IF config = "1" THEN (IF tg = "failed" THEN "raised" ELSE tg) ELSE "off",
     ret |-> None]

\* send_to_telegram(content): posts when the configuration enables it; a
\* delivery failure is logged and swallowed.  The event records the call.
send_to_telegram(kind, id, url, config, tg) ==
    [op |-> "send_to_telegram", kind |-> kind, id |-> id, url |-> url,
     res |-> IF config = "1" THEN tg ELSE "off", ret |-> None]

\* A call made during an iteration: its argument (id), how it ended (res)
\* and, for a lookup, the identity of the record it returned (ret).
Event(op, id, url, res, ret) ==
    [op |-> op, kind |-> "", id |-> id, url |-> url, res |-> res, ret |-> ret]

\* ------------------------------------------------------------- orchestration
\* Variant: the record is written first and the notification is sent once
\* the write has succeeded.
compare_and_notify_sales_write_first(properties_, sales, new_data, url, first, commitOk, config, tg) ==
    LET id == Get(new_data, IdKey, None)
        existing_data == read_sales_info(properties_, sales, id, first)
        w == write_sales_info(properties_, sales, new_data, commitOk)
        readEv == Event("read_sales_info", id, url,
                        IF existing_data.raised THEN "raised"
                        ELSE IF existing_data.found THEN "found" ELSE "none",
                        existing_data.value.id)
        writeEv == Event("write_sales_info", id, url, w.cause, None)
        write_and_notify(kind) ==
            IF w.raised
            THEN [raised |-> TRUE, sales |-> w.sales, events |-> <<readEv, writeEv>>]
            ELSE [raised |-> FALSE, sales |-> w.sales,
                  events |-> <<readEv, writeEv, send_to_telegram(kind, id, url, config, tg)>>]
    IN IF existing_data.raised
       THEN [raised |-> TRUE, sales |-> sales, events |-> <<readEv>>]
       ELSE IF existing_data.found
       THEN IF existing_data.value.data_hash # hash_data(new_data)
            THEN write_and_notify("changed")
            ELSE [raised |-> FALSE, sales |-> sales, events |-> <<readEv>>]
       ELSE write_and_notify("new")

\* compare_and_notify_sales(session, new_data)
compare_and_notify_sales(properties_, sales, new_data, url, first, commitOk, config, tg) ==
    LET id == Get(new_data, IdKey, None)
        existing_data == read_sales_info(properties_, sales, id, first)
        w == write_sales_info(properties_, sales, new_data, commitOk)
        readEv == Event("read_sales_info", id, url,
                        IF existing_data.raised THEN "raised"
                        ELSE IF existing_data.found THEN "found" ELSE "none",
                        existing_data.value.id)
        writeEv == Event("write_sales_info", id, url, w.cause, None)
        \* send_to_telegram, then write_sales_info; an exception leaving
        \* send_to_telegram would skip the write.
        notify_and_write(kind) ==
            LET tgEv == send_to_telegram(kind, id, url, config, tg)
            IN IF tgEv.res = "raised"
               THEN [raised |-> TRUE, sales |-> sales, events |-> <<readEv, tgEv>>]
               ELSE [raised |-> w.raised, sales |-> w.sales,
                     events |-> <<readEv, tgEv, writeEv>>]
    IN IF existing_data.raised
       THEN [raised |-> TRUE, sales |-> sales, events |-> <<readEv>>]
       ELSE IF existing_data.found
       THEN IF existing_data.value.data_hash # hash_data(new_data)
            THEN notify_and_write("changed")
            ELSE [raised |-> FALSE, sales |-> sales, events |-> <<readEv>>]
       ELSE notify_and_write("new")

\* The except clause of the loop body: log the error, go on with the next URL.
\* Variant: the error leaves the loop.
handle_exception_abort(sales, events) ==
    [sales |-> sales, events |-> events, outcome |-> "error", abort |-> TRUE]

\* except Exception as err: logging.error(...)
handle_exception(sales, events) ==
    [sales |-> sales, events |-> events, outcome |-> "error", abort |-> FALSE]

\* The record has no "ID nadmetanja": warn, tell Telegram, continue.
\* Variant: break instead of continue.
missing_identity_break(sales, events, url, config, tg) ==
    [sales |-> sales,
     events |-> Append(events, send_to_telegram("missing", None, url, config, tg)),
     outcome |-> "skipped", abort |-> TRUE]

\* Variant: the warning is logged only.
missing_identity_silent(sales, events, url, config, tg) ==
    [sales |-> sales, events |-> events, outcome |-> "skipped", abort |-> FALSE]

missing_identity(sales, events, url, config, tg) ==
    [sales |-> sales,
     events |-> Append(events, send_to_telegram("missing", None, url, config, tg)),
     outcome |-> "skipped", abort |-> FALSE]

\* Variant: a failed comparison is tried a second time before the error is
\* logged.
process_url_retry(properties_, sales, url, page, first, commitOk, config, tg) ==
    LET getEv == Event("get_html", None, url, IF page.fetchOk THEN "ok" ELSE "raised", None)
        parseEv == Event("parse_html", None, url, IF page.parseOk THEN "ok" ELSE "raised", None)
        c == compare_and_notify_sales(properties_, sales, page.data, url,
                                      first, commitOk, config, tg)
    IN IF ~page.fetchOk THEN handle_exception(sales, <<getEv>>)
       ELSE IF ~page.parseOk THEN handle_exception(sales, <<getEv, parseEv>>)
       ELSE IF ~Has(page.data, IdKey)
       THEN missing_identity(sales, <<getEv, parseEv>>, url, config, tg)
       ELSE IF c.raised
       THEN handle_exception(c.sales, <<getEv, parseEv>> \o c.events \o c.events)
       ELSE [sales |-> c.sales, events |-> <<getEv, parseEv>> \o c.events,
             outcome |-> "done", abort |-> FALSE]

\* One iteration of the loop of process_urls.  page is what the site
\* answers: whether the fetch and the parse succeed, and the parsed record.
process_url(properties_, sales, url, page, first, commitOk, config, tg) ==
    LET getEv == Event("get_html", None, url, IF page.fetchOk THEN "ok" ELSE "raised", None)
        parseEv == Event("parse_html", None, url, IF page.parseOk THEN "ok" ELSE "raised", None)
        c == compare_and_notify_sales(properties_, sales, page.data, url,
                                      first, commitOk, config, tg)
    IN IF ~page.fetchOk THEN handle_exception(sales, <<getEv>>)
       ELSE IF ~page.parseOk THEN handle_exception(sales, <<getEv, parseEv>>)
       ELSE IF ~Has(page.data, IdKey)
       THEN missing_identity(sales, <<getEv, parseEv>>, url, config, tg)
       ELSE IF c.raised THEN handle_exception(c.sales, <<getEv, parseEv>> \o c.events)
       ELSE [sales |-> c.sales, events |-> <<getEv, parseEv>> \o c.events,
             outcome |-> "done", abort |-> FALSE]

\* ------------------------------------------------------------- state
VARIABLES
    properties,    \* ids of the rows of table properties (Nekretnina)
    sales_info,    \* rows of table sales_info (SalesInfo)
    CONFIG,        \* CONFIG["send_to_telegram"]
    pc,            \* "idle" between invocations, "running" inside process_urls
    idx,           \* position of the loop of process_urls in the URL list
    last,          \* history: the last loop iteration (input, outcome, events)
    pass,          \* history (SpecH): invocations of main() started so far
    reported       \* history (SpecH): per identity, the last record that was
                   \* notified as new or changed and then written, and its pass

vars == <<properties, sales_info, CONFIG, pc, idx, last, pass, reported>>

Pages ==
    {[fetchOk |-> TRUE, parseOk |-> TRUE, data |-> d] : d \in Dicts}
    \cup {[fetchOk |-> FALSE, parseOk |-> TRUE, data |-> <<>>],
          [fetchOk |-> TRUE, parseOk |-> FALSE, data |-> <<>>]}

NoLast == [url |-> 0, page |-> [fetchOk |-> FALSE, parseOk |-> TRUE, data |-> <<>>],
           outcome |-> "none", events |-> <<>>]
NoReport == [pass |-> 0, data_hash |-> hash_data(<<>>)]

\* The rows a database can hold for identity i before the first pass: what
\* a create of a record carrying that identity produces.
RowsOf(i) ==
    {SalesInfo(i, Get(d, "iznos_najvise_ponude", None), Get(d, "broj_uplatitelja", None),
               hash_data(d), json_dumps(d, FALSE)) : d \in {x \in Dicts : Get(x, IdKey, None) = i}}

\* One row at most per primary key.
Tables == {t \in SUBSET (UNION {RowsOf(i) : i \in Ids}) :
              \A r, s \in t : r.id = s.id => r = s}

Init ==
    /\ properties \in SUBSET Ids
    /\ sales_info \in Tables
    /\ CONFIG \in {"0", "1"}
    /\ pc = "idle"
    /\ idx = 1
    /\ last = NoLast
    /\ pass = 0
    /\ reported = [i \in Ids |-> NoReport]

\* main(): open the session and enter process_urls.
StartPass ==
    /\ pc = "idle"
    /\ pc' = "running"
    /\ idx' = 1
    /\ UNCHANGED <<properties, sales_info, CONFIG, last, pass, reported>>

\* One iteration of the for loop of process_urls.
Iteration ==
    /\ pc = "running"
    /\ idx <= NumUrls
    /\ \E page \in Pages, commitOk \in BOOLEAN, tg \in {"sent", "failed"} :
       \E first \in (IF properties = {} THEN {None} ELSE properties) :
          LET r == process_url(properties, sales_info, idx, page, first,
                               commitOk, CONFIG, tg)
          IN /\ sales_info' = r.sales
             /\ last' = [url |-> idx, page |-> page,
                         outcome |-> r.outcome, events |-> r.events]
             /\ idx' = IF r.abort THEN NumUrls + 1 ELSE idx + 1
    /\ UNCHANGED <<properties, CONFIG, pc>>

ProcessUrl == Iteration /\ UNCHANGED <<pass, reported>>

\* The loop is over: main() closes the session.
EndPass ==
    /\ pc = "running"
    /\ idx > NumUrls
    /\ pc' = "idle"
    /\ UNCHANGED <<properties, sales_info, CONFIG, idx, last, pass, reported>>

Next == StartPass \/ ProcessUrl \/ EndPass

Spec == Init /\ [][Next]_vars

\* ------------------------------------------------------------- history
\* The same program with the passes counted and the reports remembered.
\* A new/changed notification about i was delivered and the write succeeded.
Notified(events, i) ==
    /\ \E k \in 1..Len(events) :
          /\ events[k].op = "send_to_telegram"
          /\ events[k].kind \in {"new", "changed"}
          /\ events[k].id = i
          /\ events[k].res = "sent"
    /\ \E k \in 1..Len(events) :
          /\ events[k].op = "write_sales_info"
          /\ events[k].id = i
          /\ events[k].res = "none"

InitH ==
    /\ Init
    /\ CONFIG = "1"
    /\ properties # {}

StartPassH ==
    /\ pass < MaxPasses
    /\ pc = "idle"
    /\ pc' = "running"
    /\ idx' = 1
    /\ pass' = pass + 1
    /\ UNCHANGED <<properties, sales_info, CONFIG, last, reported>>

ProcessUrlH ==
    /\ Iteration
    /\ pass' = pass
    /\ reported' = [i \in Ids |->
                      IF Notified(last'.events, i)
                      THEN [pass |-> pass, data_hash |-> hash_data(last'.page.data)]
                      ELSE reported[i]]

NextH == StartPassH \/ ProcessUrlH \/ EndPass

SpecH == InitH /\ [][NextH]_vars

\* The iteration recorded in l parsed a record that carries an identity.
Observed(l) == l.page.fetchOk /\ l.page.parseOk /\ Has(l.page.data, IdKey)
IdOf(l) == Get(l.page.data, IdKey, None)

\* ------------------------------------------------------------- write twice
\* write_sales_info applied twice in a row to the same record, on any
\* database: last.events holds the two calls.
InitW == Init

WriteOnce ==
    /\ pc = "idle"
    /\ \E data \in {d \in Dicts : Has(d, IdKey)}, commitOk \in BOOLEAN :
          LET w == write_sales_info(properties, sales_info, data, commitOk)
          IN /\ sales_info' = w.sales
             /\ last' = [url |-> 0,
                         page |-> [fetchOk |-> TRUE, parseOk |-> TRUE, data |-> data],
                         outcome |-> "once",
                         events |-> <<Event("write_sales_info", Get(data, IdKey, None),
                                            0, w.cause, None)>>]
    /\ pc' = "written"
    /\ UNCHANGED <<properties, CONFIG, idx, pass, reported>>

WriteAgain ==
    /\ pc = "written"
    /\ \E commitOk \in BOOLEAN :
          LET w == write_sales_info(properties, sales_info, last.page.data, commitOk)
          IN /\ sales_info' = w.sales
             /\ last' = [last EXCEPT
                           !.outcome = "twice",
                           !.events = Append(@, Event("write_sales_info", IdOf(last),
                                                      0, w.cause, None))]
    /\ pc' = "idle"
    /\ UNCHANGED <<properties, CONFIG, idx, pass, reported>>

NextW == WriteOnce \/ WriteAgain

SpecW == InitW /\ [][NextW]_vars

\* ------------------------------------------------------------- properties
\* A step that runs one iteration of the loop of process_urls.
Step == pc = "running" /\ idx <= NumUrls /\ idx' # idx

Calls(l, op) == {k \in 1..Len(l.events) : l.events[k].op = op}
\* send_to_telegram was called with a message of this kind about identity i.
Told(l, kinds, i) ==
    \E k \in Calls(l, "send_to_telegram") :
        l.events[k].kind \in kinds /\ l.events[k].id = i
\* ... and the message was delivered.
Delivered(l, kinds, i) ==
    \E k \in Calls(l, "send_to_telegram") :
        l.events[k].kind \in kinds /\ l.events[k].id = i /\ l.events[k].res = "sent"

Stored(sales, i) == \E r \in sales : r.id = i

\* C1: when an iteration observes a record whose identity has no row in
\* sales_info, a "new entry" notification naming the identity is sent and
\* afterwards the store holds a row for it whose data_hash is hash_data of
\* the observed record.
C1_NewRecord ==
    [][(Step /\ Observed(last') /\ ~Stored(sales_info, IdOf(last')))
         => /\ Told(last', {"new"}, IdOf(last'))
            /\ \E r \in sales_info' :
                  r.id = IdOf(last') /\ r.data_hash = hash_data(last'.page.data)]_vars

\* C2: when the store holds a row for the observed identity with another
\* fingerprint, exactly one notification is sent for it and afterwards the
\* row's data_hash and json_data are those of the observed record.
C2_Changed ==
    [][(Step /\ Observed(last')
          /\ \E r \in sales_info :
                r.id = IdOf(last') /\ r.data_hash # hash_data(last'.page.data))
         => /\ Cardinality({k \in Calls(last', "send_to_telegram") :
                               last'.events[k].id = IdOf(last')}) = 1
            /\ \E r \in sales_info' :
                  /\ r.id = IdOf(last')
                  /\ r.data_hash = hash_data(last'.page.data)
                  /\ r.json_data = json_dumps(last'.page.data, FALSE)]_vars

\* C3: when the store holds fingerprint F for the observed identity and the
\* observed record hashes to F, no notification is delivered for it and the
\* store is left as it was.
C3_Unchanged ==
    [][(Step /\ Observed(last')
          /\ \E r \in sales_info :
                r.id = IdOf(last') /\ r.data_hash = hash_data(last'.page.data))
         => /\ ~Delivered(last', {"new", "changed"}, IdOf(last'))
            /\ sales_info' = sales_info]_vars

\* C4: once a new/changed notification was delivered for an identity in some
\* pass (and the record was written), a later pass that observes the identical
\* record delivers none for it.
C4_AtMostOnePerChange ==
    [][(Step /\ Observed(last')
          /\ reported[IdOf(last')].pass >= 1
          /\ reported[IdOf(last')].pass < pass
          /\ reported[IdOf(last')].data_hash = hash_data(last'.page.data))
         => ~Delivered(last', {"new", "changed"}, IdOf(last'))]_vars

\* C5: read_sales_info(session, id) returns the row of identity id when the
\* store holds one, returns None without raising when it holds none, and
\* never returns a row of another identity.
C5_ReadKeyedByIdentity ==
    [][Step => \A k \in Calls(last', "read_sales_info") :
                 LET e == last'.events[k]
                 IN /\ Stored(sales_info, e.id) => (e.res = "found" /\ e.ret = e.id)
                    /\ ~Stored(sales_info, e.id) => e.res = "none"
                    /\ e.res = "found" => e.ret = e.id]_vars

\* C6: no notification has been delivered for an entity whose write in the
\* same iteration then fails.
C6_NoNotifyBeforeFailedWrite ==
    ~\E j \in Calls(last, "send_to_telegram"), k \in Calls(last, "write_sales_info") :
        /\ j < k
        /\ last.events[j].kind \in {"new", "changed"}
        /\ last.events[j].res = "sent"
        /\ last.events[j].id = last.events[k].id
        /\ last.events[k].res # "none"

\* C7: a failure while processing one URL (fetch, parse, store read or write
\* error) does not abort the pass: the loop moves on to the next URL with the
\* store exactly as it was, so the later URLs are processed as they would
\* have been without the failure, and the pass ends only after the last URL.
C7_EntityIsolation ==
    [][/\ (Step /\ last'.outcome = "error")
            => /\ pc' = "running"
               /\ idx' = idx + 1
               /\ sales_info' = sales_info
               /\ properties' = properties
       /\ (pc = "running" /\ pc' = "idle") => last.url = NumUrls]_vars

\* A failed iteration that was not the last one, and the loop went on.
C7_Witness ==
    /\ pc = "running"
    /\ last.outcome = "error"
    /\ last.url < NumUrls
    /\ idx = last.url + 1
    /\ \E k \in Calls(last, "write_sales_info") : last.events[k].res # "none"

\* C8: when the parsed record lacks "ID nadmetanja", the store is neither
\* read nor written for that URL and the pass continues with the next URL.
C8_MissingIdentity ==
    [][(Step /\ last'.page.fetchOk /\ last'.page.parseOk
          /\ ~Has(last'.page.data, IdKey))
         => /\ sales_info' = sales_info
            /\ Calls(last', "read_sales_info") = {}
            /\ Calls(last', "write_sales_info") = {}
            /\ pc' = "running"
            /\ idx' = idx + 1]_vars

C8_Witness ==
    /\ last.outcome = "skipped"
    /\ last.page.data # <<>>
    /\ ~Has(last.page.data, IdKey)
    /\ last.url < NumUrls
    /\ idx = last.url + 1

\* An extraction failure: the fetch or the parse raised, or the record
\* carries no identity.
ExtractionFailed(l) ==
    ~l.page.fetchOk \/ ~l.page.parseOk \/ ~Has(l.page.data, IdKey)

\* C9 as stated: every extraction failure calls send_to_telegram with an
\* error message, skips persistence and continues with the next URL.
C9_ExtractionFailureNotified ==
    [][(Step /\ ExtractionFailed(last'))
         => /\ Calls(last', "send_to_telegram") # {}
            /\ Calls(last', "write_sales_info") = {}
            /\ sales_info' = sales_info
            /\ idx' = idx + 1]_vars

\* C9 amended: a missing identity calls send_to_telegram with the "No 'ID
\* nadmetanja' found" message; a fetch or parse error is only logged and
\* send_to_telegram is not called; in all three cases persistence is skipped
\* and processing continues with the next URL.
C9_ExtractionFailureHandled ==
    [][(Step /\ ExtractionFailed(last'))
         => /\ (last'.page.fetchOk /\ last'.page.parseOk)
                  => \E k \in Calls(last', "send_to_telegram") :
                        last'.events[k].kind = "missing" /\ last'.events[k].url = idx
            /\ (~last'.page.fetchOk \/ ~last'.page.parseOk)
                  => Calls(last', "send_to_telegram") = {}
            /\ Calls(last', "write_sales_info") = {}
            /\ sales_info' = sales_info
            /\ pc' = "running"
            /\ idx' = idx + 1]_vars

\* A fetch error that was logged only, with the loop gone on.
C9_Witness ==
    /\ ~last.page.fetchOk
    /\ last.outcome = "error"
    /\ Calls(last, "send_to_telegram") = {}
    /\ idx = last.url + 1
    /\ CONFIG = "1"

\* C10: a write_sales_info call that fails, before or at commit, leaves the
\* store as it was before the call, and the error reaches the caller (the
\* iteration ends in the except clause).
C10_WriteFailureAtomic ==
    [][Step => \A k \in Calls(last', "write_sales_info") :
                 last'.events[k].res # "none"
                    => /\ sales_info' = sales_info
                       /\ last'.outcome = "error"]_vars

\* A commit that failed on a create.
C10_Witness ==
    \E k \in Calls(last, "write_sales_info") :
        /\ last.events[k].res = "OperationalError"
        /\ ~Stored(sales_info, last.events[k].id)
        /\ last.events[k].id \notin properties

\* C11: every row of sales_info carries the fingerprint of the record
\* serialized in it: data_hash = hash_data(json.loads(json_data)).
C11_FingerprintConsistent ==
    \A r \in sales_info : r.data_hash = hash_data(json_loads(r.json_data))

\* A row this iteration created from a record whose items were not in key order.
C11_Witness ==
    /\ \E k \in Calls(last, "write_sales_info") : last.events[k].res = "none"
    /\ last.page.data # SortKeys(last.page.data)
    /\ \E r \in sales_info :
          r.id = IdOf(last) /\ r.json_data = json_dumps(last.page.data, FALSE)

\* C12: there is one row per written identity, and a write for an identity
\* that already has a row succeeds and overwrites that row in place.
C12_Upsert ==
    [][Step => \A k \in Calls(last', "write_sales_info") :
                 LET i == last'.events[k].id
                 IN /\ Cardinality({r \in sales_info' : r.id = i}) <= 1
                    /\ Stored(sales_info, i)
                         => /\ last'.events[k].res = "none"
                            /\ \E r \in sales_info' :
                                  /\ r.id = i
                                  /\ r.data_hash = hash_data(last'.page.data)
                                  /\ r.json_data = json_dumps(last'.page.data, FALSE)]_vars

\* C13: a second write_sales_info call with the same record leaves the store
\* as the first call left it (the first call not having met a database
\* failure that the second call does not meet).
C13_IdempotentWrite ==
    [][(pc = "written" /\ pc' = "idle" /\ last.events[1].res # "OperationalError")
         => sales_info' = sales_info]_vars

\* The first call created the row, the second call was made on top of it.
C13_Witness ==
    /\ last.outcome = "twice"
    /\ last.events[1].res = "none"
    /\ Len(last.events) = 2
    /\ \E r \in sales_info : r.id = IdOf(last) /\ r.data_hash = hash_data(last.page.data)

\* C14: when the delivery of a new/changed notification fails, the failure
\* is swallowed: write_sales_info is still called for that entity, with the
\* outcome it has when the delivery succeeds, and the loop goes on.
C14_DeliveryFailureSwallowed ==
    [][Step => \A j \in Calls(last', "send_to_telegram") :
                 (last'.events[j].kind \in {"new", "changed"}
                    /\ last'.events[j].res \notin {"sent", "off"})
                   => /\ last'.events[j].res = "failed"
                      /\ \E k \in Calls(last', "write_sales_info") :
                            /\ j < k
                            /\ last'.events[k].id = last'.events[j].id
                            /\ \A c \in BOOLEAN :
                                  LET w == write_sales_info(properties, sales_info,
                                                            last'.page.data, c)
                                  IN w.cause = last'.events[k].res
                                        => sales_info' = w.sales
                      /\ pc' = "running"
                      /\ idx' = idx + 1]_vars

\* A notification whose delivery failed, followed by a write that created the row.
C14_Witness ==
    \E j \in Calls(last, "send_to_telegram"), k \in Calls(last, "write_sales_info") :
        /\ j < k
        /\ last.events[j].kind = "changed"
        /\ last.events[j].res = "failed"
        /\ last.events[k].res = "none"
        /\ Stored(sales_info, last.events[k].id)
        /\ idx = last.url + 1

\* C15: hash_data does not depend on the insertion order of the keys, and
\* tells apart any two records that differ as mappings: the record just
\* observed and the record serialized in a stored row have the same digest
\* exactly when they have the same items.
C15_HashOrderIndependent ==
    Observed(last)
      => \A r \in sales_info :
            (Items(json_loads(r.json_data)) = Items(last.page.data))
              <=> (hash_data(json_loads(r.json_data)) = hash_data(last.page.data))

\* The observed record and a stored one are the same mapping in another
\* key order, and the comparison of compare_and_notify_sales found no change.
C15_Witness ==
    /\ Observed(last)
    /\ \E r \in sales_info :
          /\ json_loads(r.json_data) # last.page.data
          /\ Items(json_loads(r.json_data)) = Items(last.page.data)
          /\ r.data_hash = hash_data(last.page.data)
    /\ Calls(last, "read_sales_info") # {}
    /\ Calls(last, "send_to_telegram") = {}
    /\ last.outcome = "done"

\* C16: no step of the program deletes a record: an identity that has a row
\* in sales_info has one after every step, failed writes included.
C16_NoDeletion ==
    [][\A i \in Ids : Stored(sales_info, i) => Stored(sales_info', i)]_vars

\* A write for an identity that already has a row failed, and the row is
\* still there.
C16_Witness ==
    \E k \in Calls(last, "write_sales_info") :
        /\ last.events[k].res = "IntegrityError"
        /\ Stored(sales_info, last.events[k].id)
        /\ last.outcome = "error"

\* C17: within a pass the URLs are handled once each, in list order; an
\* iteration makes at most one fetch, one lookup, one notification and one
\* write attempt; the pass ends after the last URL and only then.  The loop
\* position only grows, is bounded by the length of the list, and a running
\* pass always has its next step enabled, so a pass ends after at most
\* NumUrls iterations.
AtMostOnce(l, op) == Cardinality(Calls(l, op)) <= 1

C17_OncePerUrl ==
    /\ [][/\ Step => /\ last'.url = idx
                     /\ idx' = idx + 1
                     /\ \A op \in {"get_html", "parse_html", "read_sales_info",
                                   "send_to_telegram", "write_sales_info"} :
                           AtMostOnce(last', op)
          /\ (pc = "idle" /\ pc' = "running") => idx' = 1
          /\ (pc = "running" /\ pc' = "idle")
                => (idx = NumUrls + 1 /\ last.url = NumUrls)]_vars
    /\ [](pc = "running" => /\ idx \in 1..(NumUrls + 1)
                             /\ ENABLED (ProcessUrl \/ EndPass))

\* The last URL of a pass was handled after an iteration that failed, with a
\* lookup, a notification and a write attempt, and the pass is over.
C17_Witness ==
    /\ pc = "idle"
    /\ last.url = NumUrls
    /\ idx = NumUrls + 1
    /\ Calls(last, "read_sales_info") # {}
    /\ Calls(last, "send_to_telegram") # {}
    /\ \E k \in Calls(last, "write_sales_info") : last.events[k].res # "none"

\* C18: write_sales_info is called for an identity only after
\* send_to_telegram was called, earlier in the same iteration, with a new or
\* changed message about that identity; and sales_info changes only in an
\* iteration that made such a call.
C18_WriteOnlyAfterNotify ==
    [][/\ Step => \A k \in Calls(last', "write_sales_info") :
                     \E j \in Calls(last', "send_to_telegram") :
                        /\ j < k
                        /\ last'.events[j].kind \in {"new", "changed"}
                        /\ last'.events[j].id = last'.events[k].id
       /\ sales_info' # sales_info
            => /\ Step
               /\ Calls(last', "write_sales_info") # {}
               /\ Told(last', {"new", "changed"}, IdOf(last'))]_vars

\* A row was created by a write that followed the changed notification of
\* the same identity.
C18_Witness ==
    \E j \in Calls(last, "send_to_telegram"), k \in Calls(last, "write_sales_info") :
        /\ j < k
        /\ last.events[j].kind = "changed"
        /\ last.events[j].id = last.events[k].id
        /\ last.events[k].res = "none"
        /\ last.events[j].res \in {"sent", "off"}
        /\ \E r \in sales_info :
              r.id = last.events[k].id /\ r.data_hash = hash_data(last.page.data)

\* C19: after a successful write_sales_info(data), the projected columns of
\* the row (iznos_najvise_ponude, status_nadmetanja, broj_uplatitelja) hold
\* what the update branch assigns from data, whichever branch wrote the row.
C19_ProjectedFieldsSamePath ==
    [][Step => \A k \in Calls(last', "write_sales_info") :
                 last'.events[k].res = "none"
                   => \E r \in sales_info' :
                         /\ r.id = last'.events[k].id
                         /\ r.iznos_najvise_ponude
                              = updated_fields(last'.page.data).iznos_najvise_ponude
                         /\ r.status_nadmetanja
                              = updated_fields(last'.page.data).status_nadmetanja
                         /\ r.broj_uplatitelja
                              = updated_fields(last'.page.data).broj_uplatitelja]_vars

====
